---- MODULE Spec2Model ----
(***************************************************************************)
(* A model of the Learning RAG Demo service: Config, EmbeddingService,     *)
(* DocumentStore (Qdrant with in-memory fallback), RagWorkflow (retrieve   *)
(* -> answer) and RagAPI, with the request handlers run by concurrent      *)
(* worker threads as FastAPI runs plain "def" endpoints.                   *)
(***************************************************************************)
EXTENDS Integers, Sequences, FiniteSets, TLC

\* ------------------------------------------------------------------ bounds

\* The number of calls made on the service in one behaviour when one caller
\* makes them one after the other.
MaxOps == 3

\* The number of calls made on the service in one behaviour when the worker
\* threads serve them concurrently.
MaxConcurrentOps == 2

\* The worker threads that serve requests concurrently.
Threads == {"t1", "t2"}

\* The single thread of a caller that makes its calls one after the other.
SeqThreads == {"t1"}

\* ------------------------------------------------------------------ values

\* Python's None, for an optional integer: <<>> is None and <<n>> is n.
None == <<>>

Some(n) == <<n>>

LangGraphText == "LangGraph is a library for building stateful workflows."

LangGraphQuestion == "What is LangGraph?"

\* Document texts submitted by callers (non-empty: DocumentRequest.min_length).
Texts == {LangGraphText, "abc"}

\* Questions asked by callers (non-empty: QuestionRequest.min_length).
Questions == {LangGraphQuestion, "ab"}

\* Explicit doc_id arguments handed to RagWorkflow.add_document.
DocIdArgs == {None, Some(5)}

\* dimension arguments handed to EmbeddingService(dimension): main.py gives
\* none; the class takes any.
DimensionArgs == {None, Some(0), Some(1)}

\* limit arguments handed to DocumentStore.search directly.
LimitArgs == {None, Some(0), Some(1), Some(2), Some(3)}

\* embedding arguments handed to DocumentStore.add_document directly.
VectorArgs == {<<<<7, 0>>, <<7, 1>>>>, <<<<7, 0>>>>}

\* The end-to-end scenario's configuration: dimension=8, limit=1, preview=10.
ScenarioConfig ==
    [EMBEDDING_DIMENSION |-> 8, SEARCH_LIMIT |-> 1, ANSWER_PREVIEW_LENGTH |-> 10]

\* Values of the environment and of the Config class body at import, for a
\* caller that makes its calls one after the other.
SeqConfigs ==
    [EMBEDDING_DIMENSION : {0, 2, 8},
     SEARCH_LIMIT : {0, 1, 2},
     ANSWER_PREVIEW_LENGTH : {0, 3, 10}]

\* The same for concurrently served calls.
Configs ==
    [EMBEDDING_DIMENSION : {0, 1},
     SEARCH_LIMIT : {0, 1, 2},
     ANSWER_PREVIEW_LENGTH : {3}]

\* Values on both sides of every bound the configuration has: a dimension and
\* a limit must be positive, a preview length must not be negative.
AnyConfigs ==
    [EMBEDDING_DIMENSION : {-1, 0, 1},
     SEARCH_LIMIT : {-1, 0, 1},
     ANSWER_PREVIEW_LENGTH : {-1, 0, 3}]

\* Per-process string-hash randomisation (PYTHONHASHSEED).
HashSecrets == {0, 1}

\* What the collection holds at the Qdrant server before this process starts.
OldCollection == (3 :> [text |-> "old", vector |-> <<>>])

EmptyCollection == [i \in {} |-> [text |-> "", vector |-> <<>>]]

Min(a, b) == IF a < b THEN a ELSE b

Max(a, b) == IF a > b THEN a ELSE b

Abs(n) == IF n < 0 THEN 0 - n ELSE n

\* ------------------------------------------------------------------- state

VARIABLES
    phase,          \* "import" | "config_fault" | "construct" | "serving"
    Config,         \* the Config class attributes
    hash_secret,    \* this process's string-hash key
    dimension,      \* EmbeddingService.dimension
    rng,            \* the module-level generator of `random`: its seed (-1:
                    \* seeded by the OS) and how many values it has drawn
    using_qdrant,   \* DocumentStore.using_qdrant
    client,         \* DocumentStore.client: None or "QdrantClient"
    memory_store,   \* DocumentStore.memory_store
    collection,     \* the points of the collection at the Qdrant server
    init_attempts,  \* how often _initialize_qdrant ran
    init_error,     \* the failure _initialize_qdrant caught and printed, or ""
    client_calls,   \* calls made on self.client by add_document and search
    calls_left,     \* the calls the callers will still make
    th              \* per thread: the frame of the call it is serving

vars == <<phase, Config, hash_secret, dimension, rng, using_qdrant, client,
          memory_store, collection, init_attempts, init_error, client_calls,
          calls_left, th>>

storeVars ==
    <<using_qdrant, client, memory_store, collection, init_attempts, init_error>>

bootVars == <<phase, Config, hash_secret, dimension>>

\* A thread's frame when it serves no call. op is the entry point called and
\* pc the step the call is at; text, doc_id, embedding and limit are its
\* arguments and locals (derived: doc_id was read from the in-memory count);
\* state is the pipeline state of run; success is what
\* DocumentStore.add_document returned, caught the backend exception the store
\* caught ("" for none) and ret what the entry point returns to its caller.
IdleFrame ==
    [op |-> "idle", pc |-> "idle", text |-> "", doc_id |-> None,
     derived |-> FALSE, embedding |-> <<>>, limit |-> None,
     state |-> [question |-> ""], success |-> FALSE, caught |-> "",
     ret |-> [kind |-> "none"]]

\* The process as the interpreter starts it, before config is imported.
Boot ==
    /\ phase = "import"
    /\ hash_secret \in HashSecrets
    /\ dimension = 0
    /\ rng = [seed |-> -1, pos |-> 0]
    /\ using_qdrant = FALSE
    /\ client = "None"
    /\ memory_store = <<>>
    /\ collection = OldCollection
    /\ init_attempts = 0
    /\ init_error = ""
    /\ client_calls = 0

\* Requests served concurrently by the worker threads.
Init ==
    /\ Boot
    /\ Config \in Configs
    /\ calls_left = MaxConcurrentOps
    /\ th = [t \in Threads |-> IdleFrame]

\* One caller making its calls one after the other.
SeqInit ==
    /\ Boot
    /\ Config \in SeqConfigs
    /\ calls_left = MaxOps
    /\ th = [t \in SeqThreads |-> IdleFrame]

\* One caller, with any configuration.
AnyConfigInit ==
    /\ Boot
    /\ Config \in AnyConfigs
    /\ calls_left = MaxOps
    /\ th = [t \in SeqThreads |-> IdleFrame]

\* ------------------------------------------------------- EmbeddingService

\* hash(text): a function of the string, fixed within one process and varying
\* with the process's hash key; it takes negative values and values beyond
\* 10000.
hash(text) ==
    LET h == Len(text) * 10007 + 11 + hash_secret
    IN  IF hash_secret = 0 THEN 0 - h ELSE h

\* The argument of random.seed in embed.
EmbedSeed(text) == Abs(hash(text)) % 10000

\* The value random.random() returns in generator state g: the pos-th value of
\* the stream that the seed determines.
RandomValue(g) == <<g.seed, g.pos>>

\* "x or default" on an optional integer: None and 0 are falsy.
OrDefault(x, default) == IF x = None \/ x = Some(0) THEN default ELSE x[1]

\* ---------------------------------------------------------- DocumentStore

\* seq[:n] of Python.
PySlicePrefix(seq, n) ==
    IF n >= 0
    THEN SubSeq(seq, 1, Min(n, Len(seq)))
    ELSE SubSeq(seq, 1, Max(0, Len(seq) + n))

\* get_stats with a slip: in primary mode the count is that of the points of
\* the collection.
get_stats_CountsPoints ==
    [using_qdrant    |-> using_qdrant,
     qdrant_url      |-> IF using_qdrant THEN "qdrant_url" ELSE "None",
     collection_name |-> IF using_qdrant THEN "collection_name" ELSE "None",
     in_memory_count |-> IF using_qdrant THEN Cardinality(DOMAIN collection)
                         ELSE Len(memory_store)]

\* DocumentStore.get_stats.
get_stats ==
    [using_qdrant    |-> using_qdrant,
     qdrant_url      |-> IF using_qdrant THEN "qdrant_url" ELSE "None",
     collection_name |-> IF using_qdrant THEN "collection_name" ELSE "None",
     in_memory_count |-> Len(memory_store)]

\* The sequences without repetition, of length n, of elements of S.
RECURSIVE Rankings(_, _)
Rankings(S, n) ==
    IF n = 0 \/ S = {}
    THEN {<<>>}
    ELSE UNION {{<<x>> \o r : r \in Rankings(S \ {x}, n - 1)} : x \in S}

\* client.search(query_vector, limit): the hit lists the server may return, the
\* up to `limit` nearest points of the collection in some order of similarity.
\* (The cosine similarity of the vectors is not computed: every order is
\* allowed.)
QdrantHits(query_vector, limit) ==
    Rankings(DOMAIN collection, Min(limit, Cardinality(DOMAIN collection)))

\* MemorySearch with a slip: the last `limit` records, memory_store[-limit:].
MemorySearch_LastRecords(limit) ==
    LET n == Len(memory_store)
        docs == SubSeq(memory_store, Max(1, n - limit + 1), n)
    IN  [i \in 1..Len(docs) |-> docs[i].text]

\* The fallback branch of DocumentStore.search: the texts of
\* memory_store[:limit].
MemorySearch(limit) ==
    LET docs == PySlicePrefix(memory_store, limit)
    IN  [i \in 1..Len(docs) |-> docs[i].text]

\* search with a slip: the texts are collected before the failure and returned
\* by the except branch.
search_ReturnsPartial(query_embedding, limit_arg) ==
    LET limit == OrDefault(limit_arg, Config.SEARCH_LIMIT)
    IN  IF using_qdrant
        THEN {[results |-> [i \in 1..Len(hits) |-> collection[hits[i]].text],
               caught |-> c, called |-> 1]
                 : hits \in QdrantHits(query_embedding, limit),
                   c \in {"", "search"}}
        ELSE {[results |-> MemorySearch(limit), caught |-> "", called |-> 0]}

\* DocumentStore.search(query_embedding, limit): the outcomes of one call, each
\* the value returned, the exception caught (or "") and whether self.client
\* was called.
search(query_embedding, limit_arg) ==
    LET limit == OrDefault(limit_arg, Config.SEARCH_LIMIT)
    IN  IF using_qdrant
        THEN {[results |-> [i \in 1..Len(hits) |-> collection[hits[i]].text],
               caught |-> "", called |-> 1]
                 : hits \in QdrantHits(query_embedding, limit)}
             \cup {[results |-> <<>>, caught |-> "search", called |-> 1]}
        ELSE {[results |-> MemorySearch(limit), caught |-> "", called |-> 0]}

\* Whether client.upsert may succeed: the server may fail on any call and
\* refuses a vector whose length is not the size the collection was created
\* with, Config.EMBEDDING_DIMENSION.
UpsertOutcomes(vector) ==
    IF Len(vector) = Config.EMBEDDING_DIMENSION THEN BOOLEAN ELSE {FALSE}

\* Upsert with a slip: insert only, a point whose id is taken is kept.
Upsert_KeepsFirst(points, id, text, vector) ==
    [i \in DOMAIN points \cup {id} |->
        IF i \in DOMAIN points THEN points[i]
        ELSE [text |-> text, vector |-> vector]]

\* client.upsert(points=[PointStruct(id, vector, payload)]): insert or replace
\* by id.
Upsert(points, id, text, vector) ==
    [i \in DOMAIN points \cup {id} |->
        IF i = id THEN [text |-> text, vector |-> vector] ELSE points[i]]

\* ------------------------------------------------------------ RagWorkflow

\* AnswerOf with a slip: an empty context is previewed like an empty text.
AnswerOf_PreviewsNothing(context) ==
    LET preview_length == Config.ANSWER_PREVIEW_LENGTH
        first_context == IF context # <<>> THEN context[1] ELSE ""
        cut == PySlicePrefix(first_context, preview_length)
        preview == IF Len(first_context) > preview_length
                   THEN cut \o "..."
                   ELSE cut
    IN  "I found this: '" \o preview \o "'"

\* AnswerOf with a slip: the ellipsis is added from the preview length on
\* (>= for >).
AnswerOf_EllipsisAtLength(context) ==
    IF context # <<>>
    THEN LET preview_length == Config.ANSWER_PREVIEW_LENGTH
             first_context == context[1]
             cut == PySlicePrefix(first_context, preview_length)
             preview == IF Len(first_context) >= preview_length
                        THEN cut \o "..."
                        ELSE cut
         IN  "I found this: '" \o preview \o "'"
    ELSE "Sorry, I don't know."

\* AnswerOf with a slip: the preview is made from the last entry of the
\* context, context[-1].
AnswerOf_LastContext(context) ==
    IF context # <<>>
    THEN LET preview_length == Config.ANSWER_PREVIEW_LENGTH
             first_context == context[Len(context)]
             cut == PySlicePrefix(first_context, preview_length)
             preview == IF Len(first_context) > preview_length
                        THEN cut \o "..."
                        ELSE cut
         IN  "I found this: '" \o preview \o "'"
    ELSE "Sorry, I don't know."

\* The answer RagWorkflow._answer_step derives from the context.
AnswerOf(context) ==
    IF context # <<>>
    THEN LET preview_length == Config.ANSWER_PREVIEW_LENGTH
             first_context == context[1]
             cut == PySlicePrefix(first_context, preview_length)
             preview == IF Len(first_context) > preview_length
                        THEN cut \o "..."
                        ELSE cut
         IN  "I found this: '" \o preview \o "'"
    ELSE "Sorry, I don't know."

\* state.get("context", []).
StateContext(state) ==
    IF "context" \in DOMAIN state THEN state.context ELSE <<>>

_answer_step(state) ==
    [k \in DOMAIN state \cup {"answer"} |->
        IF k = "answer" THEN AnswerOf(StateContext(state)) ELSE state[k]]

\* ---------------------------------------------------------------- startup

\* Config.validate, run when config is imported, then the construction of
\* the EmbeddingService: a ValueError ends the process before any service is
\* constructed.
Startup ==
    /\ phase = "import"
    /\ IF Config.EMBEDDING_DIMENSION <= 0 \/ Config.SEARCH_LIMIT <= 0
       THEN /\ phase' = "config_fault"
            /\ dimension' = dimension
       ELSE /\ phase' = "construct"
            /\ \E d \in DimensionArgs :
                  dimension' = OrDefault(d, Config.EMBEDDING_DIMENSION)
    /\ UNCHANGED <<Config, hash_secret, rng, storeVars, client_calls,
                   calls_left, th>>

\* DocumentStoreInit with a slip: using_qdrant is set once the client exists,
\* before recreate_collection is tried.
DocumentStoreInit_FlagBeforeRecreate ==
    /\ phase = "construct"
    /\ memory_store' = <<>>
    /\ init_attempts' = init_attempts + 1
    /\ \E outcome \in {"connect_fails", "recreate_fails", "connected"} :
          /\ client' = IF outcome = "connect_fails" THEN client
                       ELSE "QdrantClient"
          /\ collection' = IF outcome = "connected" THEN EmptyCollection
                           ELSE collection
          /\ using_qdrant' = (outcome # "connect_fails")
          /\ init_error' = IF outcome = "connected" THEN "" ELSE outcome
    /\ phase' = "serving"
    /\ UNCHANGED <<Config, hash_secret, dimension, rng, client_calls,
                   calls_left, th>>

\* DocumentStore.__init__ with _initialize_qdrant: QdrantClient(url) or
\* recreate_collection may raise; the except branch leaves using_qdrant False.
DocumentStoreInit ==
    /\ phase = "construct"
    /\ memory_store' = <<>>
    /\ init_attempts' = init_attempts + 1
    /\ \E outcome \in {"connect_fails", "recreate_fails", "connected"} :
          /\ client' = IF outcome = "connect_fails" THEN client
                       ELSE "QdrantClient"
          /\ collection' = IF outcome = "connected" THEN EmptyCollection
                           ELSE collection
          /\ using_qdrant' = (outcome = "connected")
          /\ init_error' = IF outcome = "connected" THEN "" ELSE outcome
    /\ phase' = "serving"
    /\ UNCHANGED <<Config, hash_secret, dimension, rng, client_calls,
                   calls_left, th>>

\* ------------------------------------------------------------------ calls

\* Thread t takes up a call: it is idle and the callers have calls left.
CanCall(t) ==
    /\ phase = "serving"
    /\ th[t].pc = "idle"
    /\ calls_left > 0

\* Thread t's frame becomes f as it takes up a call.
Enter(t, f) ==
    /\ th' = [th EXCEPT ![t] = f]
    /\ calls_left' = calls_left - 1

\* CallApiAdd with a slip: ids are counted from 1.
CallApiAdd_CountsFromOne(t) ==
    /\ CanCall(t)
    /\ \E text \in Texts :
          Enter(t, [IdleFrame EXCEPT
                      !.op = "api_add", !.pc = "embed_seed", !.text = text,
                      !.doc_id = Some(get_stats.in_memory_count + 1),
                      !.derived = TRUE])
    /\ UNCHANGED <<bootVars, rng, storeVars, client_calls>>

\* POST /add, RagAPI.add_document(request): doc_id is read from
\* get_stats()["in_memory_count"] and handed to RagWorkflow.add_document, which
\* goes on to embed the text.
CallApiAdd(t) ==
    /\ CanCall(t)
    /\ \E text \in Texts :
          Enter(t, [IdleFrame EXCEPT !.op = "api_add", !.pc = "embed_seed",
                                     !.text = text,
                                     !.doc_id = Some(get_stats.in_memory_count),
                                     !.derived = TRUE])
    /\ UNCHANGED <<bootVars, rng, storeVars, client_calls>>

\* CallWorkflowAdd with a slip: a doc_id of None becomes 0 (`doc_id or 0`)
\* and the count is not read.
CallWorkflowAdd_NoneIsZero(t) ==
    /\ CanCall(t)
    /\ \E text \in Texts, id \in DocIdArgs :
          Enter(t, [IdleFrame EXCEPT
                      !.op = "wf_add", !.pc = "embed_seed", !.text = text,
                      !.doc_id = IF id = None THEN Some(0) ELSE id,
                      !.derived = (id = None)])
    /\ UNCHANGED <<bootVars, rng, storeVars, client_calls>>

\* RagWorkflow.add_document(text, doc_id) called directly: a doc_id of None is
\* replaced by get_stats()["in_memory_count"]; then the text is embedded.
CallWorkflowAdd(t) ==
    /\ CanCall(t)
    /\ \E text \in Texts, id \in DocIdArgs :
          Enter(t, [IdleFrame EXCEPT
                      !.op = "wf_add", !.pc = "embed_seed", !.text = text,
                      !.doc_id = IF id = None
                                 THEN Some(get_stats.in_memory_count) ELSE id,
                      !.derived = (id = None)])
    /\ UNCHANGED <<bootVars, rng, storeVars, client_calls>>

\* POST /ask, RagAPI.ask_question(request): workflow.run builds the fresh
\* pipeline state {"question": question} and the graph enters _retrieve_step,
\* which embeds the question.
CallApiAsk(t) ==
    /\ CanCall(t)
    /\ \E question \in Questions :
          Enter(t, [IdleFrame EXCEPT !.op = "api_ask", !.pc = "embed_seed",
                                     !.text = question,
                                     !.state = [question |-> question]])
    /\ UNCHANGED <<bootVars, rng, storeVars, client_calls>>

\* GET /status, RagAPI.get_status: one read of get_stats.
GetStatus(t) ==
    /\ CanCall(t)
    /\ Enter(t, [IdleFrame EXCEPT
            !.op = "get_status", !.pc = "done",
            !.ret = [kind |-> "StatusResponse",
                     qdrant_ready |-> get_stats.using_qdrant,
                     storage_type |-> IF get_stats.using_qdrant
                                      THEN "qdrant" ELSE "in-memory",
                     document_count |-> get_stats.in_memory_count,
                     graph_ready |-> TRUE]])
    /\ UNCHANGED <<bootVars, rng, storeVars, client_calls>>

\* -------------------------------------------------------------- embedding

\* AfterEmbed with a slip: the graph's entry point is the answer node, and
\* the search of _retrieve_step is never run.
AfterEmbed_SkipsSearch(op) == IF op = "api_ask" THEN "answer" ELSE "store_add"

\* Where a call goes on once embed has returned.
AfterEmbed(op) == IF op = "api_ask" THEN "search" ELSE "store_add"

\* EmbeddingService.embed: random.seed(abs(hash(text)) % 10000) on the
\* module-level generator.
EmbedSeedStep(t) ==
    /\ th[t].pc = "embed_seed"
    /\ rng' = [seed |-> EmbedSeed(th[t].text), pos |-> 0]
    /\ th' = [th EXCEPT ![t].embedding = <<>>,
                        ![t].pc = IF dimension > 0 THEN "embed_draw"
                                  ELSE AfterEmbed(th[t].op)]
    /\ UNCHANGED <<bootVars, storeVars, client_calls, calls_left>>

\* EmbeddingService.embed: one random.random() of the list comprehension.
EmbedDraw(t) ==
    /\ th[t].pc = "embed_draw"
    /\ rng' = [rng EXCEPT !.pos = rng.pos + 1]
    /\ th' = [th EXCEPT
            ![t].embedding = Append(th[t].embedding, RandomValue(rng)),
            ![t].pc = IF Len(th[t].embedding) + 1 >= dimension
                      THEN AfterEmbed(th[t].op) ELSE "embed_draw"]
    /\ UNCHANGED <<bootVars, storeVars, client_calls, calls_left>>

\* ------------------------------------------------------------------ adding

\* str(e) of exceptions other than HTTPException that RagAPI.add_document
\* may catch.
ExceptionTexts == {"", "list index out of range", "Failed to add document"}

\* The fault RagAPI.add_document raises from its `except Exception` branch.
ErrorAddingDocument(e) ==
    [kind |-> "HTTPException", status_code |-> 500,
     detail |-> "Error adding document: " \o e]

\* DocumentResponseOf with a slip: the `except HTTPException: raise` clause is
\* missing, so the handler's own fault is caught and wrapped as an unexpected
\* exception.
DocumentResponseOf_WrapsOwnFault(doc_id, success) ==
    IF ~success
    THEN ErrorAddingDocument("500: Failed to add document")
    ELSE [kind |-> "DocumentResponse", id |-> doc_id, status |-> "added"]

\* The response RagAPI.add_document builds: HTTP 500 "Failed to add document"
\* when the workflow returned False, else DocumentResponse(id, "added").
DocumentResponseOf(doc_id, success) ==
    IF ~success
    THEN [kind |-> "HTTPException", status_code |-> 500,
          detail |-> "Failed to add document"]
    ELSE [kind |-> "DocumentResponse", id |-> doc_id, status |-> "added"]

\* AfterStoreAdd with a slip: RagWorkflow.add_document drops the store's result
\* and returns True.
AfterStoreAdd_ReturnsTrue(f, success, caught) ==
    [f EXCEPT !.success = TRUE,
              !.caught = caught,
              !.ret = IF f.op = "api_add"
                      THEN DocumentResponseOf(f.doc_id[1], TRUE)
                      ELSE [kind |-> "bool", value |-> TRUE],
              !.pc = "done"]

\* The frame once DocumentStore.add_document has returned `success`:
\* RagWorkflow.add_document returns it unchanged, to its caller or to
\* RagAPI.add_document, which answers the request.
AfterStoreAdd(f, success, caught) ==
    [f EXCEPT !.success = success,
              !.caught = caught,
              !.ret = IF f.op = "api_add"
                      THEN DocumentResponseOf(f.doc_id[1], success)
                      ELSE [kind |-> "bool", value |-> success],
              !.pc = "done"]

\* add_document with a slip: a failed upsert falls back to the in-memory list.
add_document_FallsBackOnError(t, f) ==
    IF using_qdrant
    THEN /\ client_calls' = client_calls + 1
         /\ \E upsert_ok \in UpsertOutcomes(f.embedding) :
               IF upsert_ok
               THEN /\ collection' = Upsert(collection, f.doc_id[1], f.text,
                                            f.embedding)
                    /\ memory_store' = memory_store
                    /\ th' = [th EXCEPT ![t] = AfterStoreAdd(f, TRUE, "")]
               ELSE /\ collection' = collection
                    /\ memory_store' = Append(memory_store,
                                              [id |-> f.doc_id[1],
                                               text |-> f.text,
                                               embedding |-> f.embedding])
                    /\ th' = [th EXCEPT ![t] = AfterStoreAdd(f, TRUE, "upsert")]
    ELSE /\ memory_store' = Append(memory_store,
                                   [id |-> f.doc_id[1], text |-> f.text,
                                    embedding |-> f.embedding])
         /\ th' = [th EXCEPT ![t] = AfterStoreAdd(f, TRUE, "")]
         /\ UNCHANGED <<collection, client_calls>>

\* add_document with a slip: in fallback mode a record whose id the list
\* already holds is not appended, and the call still returns True.
add_document_DropsDuplicate(t, f) ==
    IF using_qdrant
    THEN /\ client_calls' = client_calls + 1
         /\ memory_store' = memory_store
         /\ \E upsert_ok \in UpsertOutcomes(f.embedding) :
               IF upsert_ok
               THEN /\ collection' = Upsert(collection, f.doc_id[1], f.text,
                                            f.embedding)
                    /\ th' = [th EXCEPT ![t] = AfterStoreAdd(f, TRUE, "")]
               ELSE /\ collection' = collection
                    /\ th' = [th EXCEPT ![t] = AfterStoreAdd(f, FALSE, "upsert")]
    ELSE /\ memory_store' =
               IF \E i \in 1..Len(memory_store) :
                     memory_store[i].id = f.doc_id[1]
               THEN memory_store
               ELSE Append(memory_store,
                           [id |-> f.doc_id[1], text |-> f.text,
                            embedding |-> f.embedding])
         /\ th' = [th EXCEPT ![t] = AfterStoreAdd(f, TRUE, "")]
         /\ UNCHANGED <<collection, client_calls>>

\* The body of DocumentStore.add_document(doc_id, text, embedding) run by
\* thread t, whose frame f holds the arguments.
add_document(t, f) ==
    IF using_qdrant
    THEN /\ client_calls' = client_calls + 1
         /\ memory_store' = memory_store
         /\ \E upsert_ok \in UpsertOutcomes(f.embedding) :
               IF upsert_ok
               THEN /\ collection' = Upsert(collection, f.doc_id[1], f.text,
                                            f.embedding)
                    /\ th' = [th EXCEPT ![t] = AfterStoreAdd(f, TRUE, "")]
               ELSE /\ collection' = collection
                    /\ th' = [th EXCEPT ![t] = AfterStoreAdd(f, FALSE, "upsert")]
    ELSE /\ memory_store' = Append(memory_store,
                                   [id |-> f.doc_id[1], text |-> f.text,
                                    embedding |-> f.embedding])
         /\ th' = [th EXCEPT ![t] = AfterStoreAdd(f, TRUE, "")]
         /\ UNCHANGED <<collection, client_calls>>

\* RagWorkflow.add_document: the call of DocumentStore.add_document that
\* follows embed, and the return of its result.
StoreAddDocument(t) ==
    /\ th[t].pc = "store_add"
    /\ add_document(t, th[t])
    /\ UNCHANGED <<bootVars, rng, using_qdrant, client, init_attempts,
                   init_error, calls_left>>

\* DocumentStore.add_document(doc_id, text, embedding) called directly.
CallStoreAdd(t) ==
    /\ CanCall(t)
    /\ \E text \in Texts, id \in DocIdArgs \ {None}, embedding \in VectorArgs :
          add_document(t, [IdleFrame EXCEPT !.op = "store_add", !.text = text,
                                            !.doc_id = id,
                                            !.embedding = embedding])
    /\ calls_left' = calls_left - 1
    /\ UNCHANGED <<bootVars, rng, using_qdrant, client, init_attempts,
                   init_error>>

\* --------------------------------------------------------------- asking

\* RagWorkflow._retrieve_step, after embed: search with Config.SEARCH_LIMIT and
\* state["context"] = results.
RetrieveSearch(t) ==
    /\ th[t].pc = "search"
    /\ \E r \in search(th[t].embedding, Some(Config.SEARCH_LIMIT)) :
          /\ th' = [th EXCEPT
                  ![t].state = [k \in DOMAIN th[t].state \cup {"context"} |->
                                   IF k = "context" THEN r.results
                                   ELSE th[t].state[k]],
                  ![t].caught = r.caught,
                  ![t].pc = "answer"]
          /\ client_calls' = client_calls + r.called
    /\ UNCHANGED <<bootVars, rng, storeVars, calls_left>>

\* RagAPI.ask_question's QuestionResponse from the state run returned (the
\* latency is left out).
QuestionResponseOf(question, result) ==
    [kind |-> "QuestionResponse",
     question |-> question,
     answer |-> result.answer,
     context_used |-> StateContext(result)]

\* The graph's second node, RagWorkflow._answer_step; run returns the state
\* and RagAPI.ask_question answers the request.
AnswerStep(t) ==
    /\ th[t].pc = "answer"
    /\ th' = [th EXCEPT
            ![t].state = _answer_step(th[t].state),
            ![t].ret = QuestionResponseOf(th[t].text,
                                          _answer_step(th[t].state)),
            ![t].pc = "done"]
    /\ UNCHANGED <<bootVars, rng, storeVars, client_calls, calls_left>>

\* DocumentStore.search(query_embedding, limit) called directly.
CallStoreSearch(t) ==
    /\ CanCall(t)
    /\ \E limit \in LimitArgs, query_embedding \in VectorArgs :
       \E r \in search(query_embedding, limit) :
          /\ Enter(t, [IdleFrame EXCEPT
                         !.op = "store_search", !.pc = "done",
                         !.embedding = query_embedding,
                         !.limit = limit,
                         !.ret = [kind |-> "list", value |-> r.results],
                         !.caught = r.caught])
          /\ client_calls' = client_calls + r.called
    /\ UNCHANGED <<bootVars, rng, storeVars>>

\* The call returns to its caller and the thread is free again.
Return(t) ==
    /\ th[t].pc = "done"
    /\ th' = [th EXCEPT ![t] = IdleFrame]
    /\ UNCHANGED <<bootVars, rng, storeVars, client_calls, calls_left>>

\* ---------------------------------------------------------- specification

Next ==
    \/ Startup
    \/ DocumentStoreInit
    \/ \E t \in DOMAIN th : CallApiAdd(t)
    \/ \E t \in DOMAIN th : CallWorkflowAdd(t)
    \/ \E t \in DOMAIN th : CallStoreAdd(t)
    \/ \E t \in DOMAIN th : CallApiAsk(t)
    \/ \E t \in DOMAIN th : CallStoreSearch(t)
    \/ \E t \in DOMAIN th : GetStatus(t)
    \/ \E t \in DOMAIN th : EmbedSeedStep(t)
    \/ \E t \in DOMAIN th : EmbedDraw(t)
    \/ \E t \in DOMAIN th : StoreAddDocument(t)
    \/ \E t \in DOMAIN th : RetrieveSearch(t)
    \/ \E t \in DOMAIN th : AnswerStep(t)
    \/ \E t \in DOMAIN th : Return(t)

\* Requests served concurrently by the worker threads.
Spec == Init /\ [][Next]_vars

\* One caller making its calls one after the other.
SeqSpec == SeqInit /\ [][Next]_vars

\* One caller making its calls one after the other, with any configuration.
AnyConfigSpec == AnyConfigInit /\ [][Next]_vars

\* ------------------------------------------------------------- properties

\* The calls that add a document.
AddOps == {"api_add", "wf_add", "store_add"}

\* Thread t's call ends in this step.
Completes(t) == th[t].pc # "done" /\ th'[t].pc = "done"

\* C1: once the store is constructed, using_qdrant never changes, whatever
\* calls are made and whether or not their backend operation fails; in primary
\* mode the in-memory list stays empty, and in fallback mode no call is ever
\* made on the Qdrant client and the server's collection is left as it was.
C1_SingleBackend ==
    /\ [](phase = "serving" /\ using_qdrant => memory_store = <<>>)
    /\ [](phase = "serving" /\ ~using_qdrant => client_calls = 0)
    /\ [][phase = "serving" =>
            /\ using_qdrant' = using_qdrant
            /\ ~using_qdrant => collection' = collection]_vars

\* A call whose backend operation failed in primary mode, after an earlier
\* add had succeeded there.
C1_Witness ==
    /\ phase = "serving" /\ using_qdrant
    /\ collection # EmptyCollection
    /\ \E t \in DOMAIN th : th[t].caught # ""

\* C2: when the connection or the collection's (re)creation fails during
\* construction, construction still ends, once, with using_qdrant false and an
\* empty in-memory list; from then on every add_document returns true and
\* appends exactly one record, that of its arguments, and every search returns
\* a list.
C2_FallbackActivation ==
    /\ [][phase = "construct" /\ init_error' # "" =>
            phase' = "serving" /\ ~using_qdrant' /\ memory_store' = <<>>]_vars
    /\ [](phase = "serving" /\ init_error # "" =>
            ~using_qdrant /\ init_attempts = 1)
    /\ [][phase = "serving" => phase' = "serving"]_vars
    /\ [][\A t \in DOMAIN th :
            init_error # "" /\ Completes(t) /\ th'[t].op \in AddOps =>
               /\ th'[t].success
               /\ th'[t].op # "api_add" =>
                     th'[t].ret = [kind |-> "bool", value |-> TRUE]
               /\ memory_store' =
                     memory_store \o <<[id |-> th'[t].doc_id[1],
                                        text |-> th'[t].text,
                                        embedding |-> th'[t].embedding]>>]_vars
    /\ [](\A t \in DOMAIN th :
            init_error # "" /\ th[t].pc = "done" =>
               /\ th[t].caught = ""
               /\ th[t].op = "store_search" => th[t].ret.kind = "list"
               /\ th[t].op = "api_ask" => th[t].ret.kind = "QuestionResponse")

\* After a failed (re)creation of the collection, an add has appended its
\* record to the in-memory list and a search has returned.
C2_Witness ==
    /\ init_error = "recreate_fails"
    /\ Len(memory_store) = 1
    /\ \E t \in DOMAIN th : th[t].op = "store_search" /\ th[t].pc = "done"

\* Thread t serves an add whose id was derived from the in-memory count.
DerivesId(t) == th[t].op \in {"api_add", "wf_add"} /\ th[t].derived

\* C3: in fallback mode two concurrent adds without an explicit id never both
\* receive id 0 (the code reads the count and appends in separate steps, and
\* nothing serialises them: both calls may read a count of 0).
C3_NeverBothIdZero ==
    \A t1, t2 \in DOMAIN th :
        /\ t1 # t2
        /\ phase = "serving" /\ ~using_qdrant
        /\ DerivesId(t1) /\ DerivesId(t2)
        => ~(th[t1].doc_id = Some(0) /\ th[t2].doc_id = Some(0))

\* C4: when the backend insert fails inside DocumentStore.add_document, the
\* store returns false and RagWorkflow.add_document returns that same false,
\* whatever the text and the id, and the call has changed neither the
\* in-memory list, nor the backend mode, nor the collection.
C4_InsertFailureReturnsFalse ==
    [][\A t \in DOMAIN th :
          Completes(t) /\ th'[t].caught = "upsert" =>
             /\ ~th'[t].success
             /\ th'[t].op \in {"wf_add", "store_add"} =>
                   th'[t].ret = [kind |-> "bool", value |-> FALSE]
             /\ th'[t].op = "api_add" => th'[t].ret.kind # "DocumentResponse"
             /\ memory_store' = memory_store
             /\ using_qdrant' = using_qdrant
             /\ collection' = collection]_vars

\* RagWorkflow.add_document, with an id derived from the count, has returned
\* after its upsert failed.
C4_Witness ==
    \E t \in DOMAIN th :
        /\ th[t].op = "wf_add" /\ th[t].pc = "done" /\ th[t].derived
        /\ th[t].caught = "upsert"
        /\ th[t].ret = [kind |-> "bool", value |-> FALSE]

\* C5: when the backend search fails (primary mode), DocumentStore.search
\* returns the empty list, and a run it belongs to goes on to its answer stage
\* and ends with context [] and the answer "Sorry, I don't know.", which
\* RagAPI.ask_question returns as an ordinary response.
C5_SearchFailureFailsOpen ==
    \A t \in DOMAIN th :
        th[t].caught = "search" =>
           /\ using_qdrant
           /\ th[t].op \in {"store_search", "api_ask"}
           /\ th[t].op = "store_search" =>
                 th[t].pc = "done" /\ th[t].ret = [kind |-> "list", value |-> <<>>]
           /\ th[t].op = "api_ask" =>
                 /\ th[t].pc \in {"answer", "done"}
                 /\ "context" \in DOMAIN th[t].state
                 /\ th[t].state.context = <<>>
                 /\ th[t].pc = "answer" => ENABLED AnswerStep(t)
                 /\ th[t].pc = "done" =>
                       /\ th[t].state.answer = "Sorry, I don't know."
                       /\ th[t].state.question = th[t].text
                       /\ th[t].ret = [kind |-> "QuestionResponse",
                                       question |-> th[t].text,
                                       answer |-> "Sorry, I don't know.",
                                       context_used |-> <<>>]

\* POST /ask has been answered although its search failed at a collection
\* that holds a document.
C5_Witness ==
    \E t \in DOMAIN th :
        /\ th[t].op = "api_ask" /\ th[t].pc = "done" /\ th[t].caught = "search"
        /\ collection # EmptyCollection

\* C6: search(query_embedding, limit) with an integer limit >= 0 returns at
\* most `limit` texts, so none for limit = 0 (the code reads a limit of 0 as
\* no limit given and searches with Config.SEARCH_LIMIT).
C6_AtMostLimitTexts ==
    \A t \in DOMAIN th :
        /\ th[t].op = "store_search" /\ th[t].pc = "done"
        /\ th[t].limit # None
        => Len(th[t].ret.value) <= th[t].limit[1]

\* C7: in fallback mode a search with a positive limit returns the texts of
\* the first min(limit, n) records of the in-memory list of n records, in
\* insertion order, whatever the query vector; so does the search of a run,
\* whose limit is Config.SEARCH_LIMIT. (Calls made one after the other: the
\* list is the one the search read.)
C7_FallbackSearchIsPrefix ==
    \A t \in DOMAIN th :
        LET limited == th[t].op = "store_search" /\ th[t].limit # None
            limit == IF limited THEN th[t].limit[1] ELSE Config.SEARCH_LIMIT
            res == IF th[t].op = "store_search" THEN th[t].ret.value
                   ELSE th[t].state.context
        IN  /\ phase = "serving" /\ ~using_qdrant
            /\ th[t].pc = "done"
            /\ limited \/ th[t].op = "api_ask"
            /\ limit > 0
            => /\ Len(res) = Min(limit, Len(memory_store))
               /\ \A i \in 1..Len(res) : res[i] = memory_store[i].text

\* A search with limit 1 over an in-memory list of two different texts has
\* returned one text.
C7_Witness ==
    \E t \in DOMAIN th :
        /\ ~using_qdrant
        /\ th[t].op = "store_search" /\ th[t].pc = "done"
        /\ th[t].limit = Some(1)
        /\ Len(memory_store) = 2
        /\ memory_store[1].text # memory_store[2].text
        /\ Len(th[t].ret.value) = 1

\* C8: a run on a store that holds no documents ends, whatever the question
\* and in both backend modes, with context [] and the answer
\* "Sorry, I don't know.".
C8_EmptyStoreRun ==
    \A t \in DOMAIN th :
        /\ th[t].op = "api_ask" /\ th[t].pc = "done"
        /\ IF using_qdrant THEN DOMAIN collection = {} ELSE memory_store = <<>>
        => /\ th[t].state.question = th[t].text
           /\ th[t].state.context = <<>>
           /\ th[t].state.answer = "Sorry, I don't know."
           /\ th[t].ret.context_used = <<>>
           /\ th[t].ret.answer = "Sorry, I don't know."

\* A run has ended on the empty collection of the primary backend, its search
\* having succeeded.
C8_Witness ==
    \E t \in DOMAIN th :
        /\ th[t].op = "api_ask" /\ th[t].pc = "done" /\ th[t].caught = ""
        /\ using_qdrant /\ DOMAIN collection = {}
        /\ client_calls = 1

\* C9: a run whose context is not empty answers from its first entry t and
\* the preview length L: "I found this: '" + the first L characters of t +
\* "...'" when t is longer than L, and t as a whole, with no ellipsis, when it
\* is not.
C9_PreviewTruncation ==
    \A t \in DOMAIN th :
        /\ th[t].op = "api_ask" /\ th[t].pc = "done"
        /\ th[t].state.context # <<>>
        => LET first == th[t].state.context[1]
               L == Config.ANSWER_PREVIEW_LENGTH
           IN  /\ Len(first) > L =>
                     th[t].state.answer =
                        "I found this: '" \o SubSeq(first, 1, L) \o "...'"
               /\ Len(first) <= L =>
                     th[t].state.answer = "I found this: '" \o first \o "'"
               /\ th[t].ret.answer = th[t].state.answer

\* With preview length 3 a run has answered from the 55-character text.
C9_Witness ==
    \E t \in DOMAIN th :
        /\ th[t].op = "api_ask" /\ th[t].pc = "done"
        /\ Config.ANSWER_PREVIEW_LENGTH = 3
        /\ th[t].state.context # <<>>
        /\ th[t].state.context[1] = LangGraphText
        /\ th[t].state.answer = "I found this: 'Lan...'"

\* The end-to-end scenario has run so far without a backend error: under
\* ScenarioConfig, thread t has finished the k-th call made on the service.
ScenarioCall(t, k, op, text) ==
    /\ Config = ScenarioConfig
    /\ calls_left = MaxOps - k
    /\ th[t].op = op /\ th[t].text = text
    /\ th[t].pc = "done" /\ th[t].caught = ""

\* The store holds the scenario's document, with id 0, and nothing else.
ScenarioStore ==
    IF using_qdrant
    THEN DOMAIN collection = {0} /\ collection[0].text = LangGraphText
    ELSE /\ Len(memory_store) = 1
         /\ memory_store[1].id = 0
         /\ memory_store[1].text = LangGraphText

\* The response to askQuestion in the scenario, with the given answer.
ScenarioAnswer(t, answer) ==
    th[t].ret = [kind |-> "QuestionResponse",
                 question |-> LangGraphQuestion,
                 answer |-> answer,
                 context_used |-> <<LangGraphText>>]

\* The response to addDocument in the scenario.
ScenarioAdded(t) ==
    th[t].ret = [kind |-> "DocumentResponse", id |-> 0, status |-> "added"]

C11_VectorLengthIsDimension ==
    phase = "serving" =>
       IF using_qdrant
       THEN \A id \in DOMAIN collection :
               Len(collection[id].vector) = Config.EMBEDDING_DIMENSION
       ELSE \A i \in 1..Len(memory_store) :
               Len(memory_store[i].embedding) = Config.EMBEDDING_DIMENSION

\* Thread t's call of embed has returned: its frame holds the vector.
Embedded(t) ==
    /\ th[t].op \in {"api_add", "wf_add", "api_ask"}
    /\ th[t].pc \in {"store_add", "search", "answer", "done"}

\* The vector embed(text) returns when no other call touches the generator
\* between its seeding and its last draw.
UndisturbedEmbed(text) ==
    [i \in 1..Max(dimension, 0) |-> <<EmbedSeed(text), i - 1>>]

\* C12: embed(text) returns the same vector on every call, the one its own
\* seed determines, also when other calls of embed interleave with it (the
\* generator is the one shared by all threads: a call may draw from the
\* stream another call has seeded).
C12_EmbedUndisturbed ==
    \A t \in DOMAIN th :
        Embedded(t) => th[t].embedding = UndisturbedEmbed(th[t].text)

\* C13: when DocumentStore.add_document returns false, POST /add ends with the
\* fault HTTP 500 "Failed to add document" and not with a DocumentResponse;
\* that fault differs from every fault raised for an unexpected exception
\* ("Error adding document: ..."), and a response {id, "added"} is returned
\* only when the store returned true, with the id handed to the store.
C13_NotAddedFault ==
    \A t \in DOMAIN th :
        th[t].op = "api_add" /\ th[t].pc = "done" =>
           /\ th[t].success <=> th[t].caught = ""
           /\ ~th[t].success =>
                 /\ th[t].ret = [kind |-> "HTTPException", status_code |-> 500,
                                 detail |-> "Failed to add document"]
                 /\ \A e \in ExceptionTexts :
                       th[t].ret # ErrorAddingDocument(e)
           /\ th[t].ret.kind = "DocumentResponse" =>
                 /\ th[t].success
                 /\ th[t].ret = [kind |-> "DocumentResponse",
                                 id |-> th[t].doc_id[1], status |-> "added"]
           /\ th[t].ret.kind \in {"DocumentResponse", "HTTPException"}

\* POST /add has ended with the fault after the store's upsert failed, while
\* another POST /add was answered "added".
C13_Witness ==
    \E t, u \in DOMAIN th :
        /\ th[t].op = "api_add" /\ th[t].pc = "done"
        /\ ~th[t].success /\ th[t].caught = "upsert"
        /\ th[t].ret.kind = "HTTPException"
        /\ th[u].op = "api_add" /\ th[u].pc = "done"
        /\ th[u].ret.kind = "DocumentResponse"

RunStepsLeft(f) ==
    CASE f.pc = "embed_seed" -> Max(dimension, 0) + 3
      [] f.pc = "embed_draw" -> (dimension - Len(f.embedding)) + 2
      [] f.pc = "search"     -> 2
      [] f.pc = "answer"     -> 1
      [] OTHER               -> 0

\* The stage the run of frame f is in.
RunStage(f) ==
    CASE f.pc \in {"embed_seed", "embed_draw", "search"} -> "retrieve"
      [] f.pc = "answer" -> "answer"
      [] OTHER -> "end"

\* C15: a run passes through stage retrieve and then through stage answer,
\* each once, and ends: its next step can always be taken and every step
\* brings it nearer to its end; retrieve is left only for answer, with the
\* context written and no answer yet, and answer only for the end, where the
\* state holds the question as asked, the context and the answer computed
\* from that context.
C15_RetrieveThenAnswer ==
    /\ [](\A t \in DOMAIN th : th[t].op = "api_ask" =>
            /\ th[t].state.question = th[t].text
            /\ RunStage(th[t]) = "retrieve" =>
                  DOMAIN th[t].state = {"question"}
            /\ RunStage(th[t]) = "answer" =>
                  DOMAIN th[t].state = {"question", "context"}
            /\ RunStage(th[t]) = "end" =>
                  /\ DOMAIN th[t].state = {"question", "context", "answer"}
                  /\ th[t].state.answer = AnswerOf(th[t].state.context)
            /\ th[t].pc = "embed_seed" => ENABLED EmbedSeedStep(t)
            /\ th[t].pc = "embed_draw" => ENABLED EmbedDraw(t)
            /\ th[t].pc = "search" => ENABLED RetrieveSearch(t)
            /\ th[t].pc = "answer" => ENABLED AnswerStep(t))
    /\ [][\A t \in DOMAIN th :
            th[t].op = "api_ask" /\ th'[t] # th[t] =>
               /\ RunStepsLeft(th'[t]) < RunStepsLeft(th[t])
                     \/ (th[t].pc = "done" /\ th'[t] = IdleFrame)
               /\ RunStage(th[t]) = "retrieve" =>
                     RunStage(th'[t]) \in {"retrieve", "answer"}
               /\ RunStage(th[t]) = "answer" =>
                     /\ th'[t].pc = "done"
                     /\ th'[t].state.question = th[t].state.question
                     /\ th'[t].state.context = th[t].state.context]_vars

\* A run has ended, its question embedded with one draw, with a context found
\* at the Qdrant server and the answer made from it.
C15_Witness ==
    \E t \in DOMAIN th :
        /\ th[t].op = "api_ask" /\ th[t].pc = "done"
        /\ Len(th[t].embedding) = 1
        /\ using_qdrant
        /\ th[t].state.context # <<>>
        /\ th[t].state.answer # "Sorry, I don't know."

\* C16: an add that succeeds with an id the store already holds replaces, in
\* primary mode, the point of that id by its own text and vector, the other
\* points and the set of ids staying as they are; in fallback mode it appends
\* its record behind the records already there, the one of the same id
\* included, so that the count grows by one with each such add.
C16_SameIdReplacesOrAppends ==
    [][\A t \in DOMAIN th :
          Completes(t) /\ th'[t].op \in AddOps /\ th'[t].success =>
             LET id == th'[t].doc_id[1]
                 n == Len(memory_store)
             IN  IF using_qdrant
                 THEN id \in DOMAIN collection =>
                         /\ DOMAIN collection' = DOMAIN collection
                         /\ collection'[id] = [text |-> th'[t].text,
                                               vector |-> th'[t].embedding]
                         /\ \A j \in DOMAIN collection \ {id} :
                               collection'[j] = collection[j]
                         /\ memory_store' = memory_store
                 ELSE (\E i \in 1..n : memory_store[i].id = id) =>
                         /\ Len(memory_store') = n + 1
                         /\ SubSeq(memory_store', 1, n) = memory_store
                         /\ memory_store'[n + 1] = [id |-> id,
                                                    text |-> th'[t].text,
                                                    embedding |->
                                                       th'[t].embedding]
                         /\ get_stats.in_memory_count' = n + 1
                         /\ collection' = collection]_vars

\* Two adds of the same id and of different texts have both succeeded in
\* primary mode: the collection holds one point, with one of the two texts.
C16_Witness ==
    \E t, u \in DOMAIN th :
        /\ using_qdrant
        /\ th[t].op \in AddOps /\ th[t].pc = "done" /\ th[t].success
        /\ th[u].op \in AddOps /\ th[u].pc = "done" /\ th[u].success
        /\ th[t].doc_id = th[u].doc_id
        /\ th[t].text # th[u].text
        /\ DOMAIN collection = {th[t].doc_id[1]}
        /\ collection[th[t].doc_id[1]].text = th[u].text

\* Thread t takes a step of a run, its first included.
RunStep(t) == th'[t] # th[t] /\ "api_ask" \in {th[t].op, th'[t].op}

\* C17: no step of a run and no search changes the in-memory list, its
\* count, the backend mode or the collection; a run starts from the state
\* {question}; and what it returns is determined by its question and by the
\* store it searches: the query vector is the one the question determines,
\* in fallback mode the context is the head of the list at the time of the
\* search, and the answer is made from that context. (The query vector is
\* drawn from the generator all threads share: a run that embeds at the same
\* time changes it.)
C17_RunReadsQuestionAndStore ==
    /\ [][\A t \in DOMAIN th :
            RunStep(t) \/ (Completes(t) /\ th'[t].op = "store_search") =>
               /\ memory_store' = memory_store
               /\ get_stats.in_memory_count' = get_stats.in_memory_count
               /\ using_qdrant' = using_qdrant
               /\ collection' = collection]_vars
    /\ [][\A t \in DOMAIN th :
            /\ th[t].op = "idle" /\ th'[t].op = "api_ask" =>
                  th'[t].state = [question |-> th'[t].text]
            /\ RunStep(t) /\ th[t].pc = "search" /\ ~using_qdrant =>
                  th'[t].state.context = MemorySearch(Config.SEARCH_LIMIT)
            /\ RunStep(t) /\ th[t].pc = "answer" =>
                  th'[t].ret = [kind |-> "QuestionResponse",
                               question |-> th[t].text,
                               answer |-> AnswerOf(th[t].state.context),
                               context_used |-> th[t].state.context]]_vars
    /\ [](\A t \in DOMAIN th :
            th[t].op = "api_ask" /\ th[t].pc \in {"search", "answer", "done"}
            => th[t].embedding = UndisturbedEmbed(th[t].text))

\* Thread t's add returns true in this step.
AddSucceeds(t) ==
    Completes(t) /\ th'[t].op \in AddOps /\ th'[t].success

\* C18: in fallback mode, however the adds of the threads interleave, the
\* count get_stats reports starts at 0, never decreases, is raised by exactly
\* one by each add that returns true and is changed by nothing else; so it is
\* at any time the number of adds that have returned true.
C18_CountCountsSuccessfulAdds ==
    /\ [][phase = "construct" /\ ~using_qdrant' =>
            get_stats.in_memory_count' = 0]_vars
    /\ [][phase = "serving" /\ ~using_qdrant =>
            LET count == get_stats.in_memory_count
                count_after == get_stats.in_memory_count'
            IN  /\ count_after >= count
                /\ \A t \in DOMAIN th :
                      AddSucceeds(t) => count_after = count + 1
                /\ count_after # count =>
                      \E t \in DOMAIN th : AddSucceeds(t)]_vars

\* In fallback mode two adds in flight at the same time, with ids derived
\* from the same count, have both returned true, and the count is 2.
C18_Witness ==
    /\ ~using_qdrant
    /\ get_stats.in_memory_count = 2
    /\ \A t \in Threads :
          /\ t \in DOMAIN th
          /\ th[t].op \in AddOps /\ th[t].pc = "done" /\ th[t].success
          /\ th[t].doc_id = Some(0)

\* The ids callers choose themselves.
ChosenIds == {id[1] : id \in DocIdArgs \ {None}}

C20_AnswerFromFirstRecord ==
    /\ [][phase = "serving" /\ ~using_qdrant /\ memory_store # <<>> =>
            /\ memory_store' # <<>>
            /\ memory_store'[1] = memory_store[1]]_vars
    /\ [](\A t \in DOMAIN th :
            /\ phase = "serving" /\ ~using_qdrant /\ memory_store # <<>>
            /\ th[t].op = "api_ask" /\ th[t].pc = "done"
            => /\ th[t].state.context # <<>>
               /\ th[t].state.context[1] = memory_store[1].text
               /\ th[t].state.answer = AnswerOf(<<memory_store[1].text>>)
               /\ th[t].ret.answer = AnswerOf(<<memory_store[1].text>>))

\* In fallback mode a run has answered from the first of two records of
\* different texts, the second of which its context holds too.
C20_Witness ==
    \E t \in DOMAIN th :
        /\ ~using_qdrant
        /\ Len(memory_store) = 2
        /\ memory_store[1].text # memory_store[2].text
        /\ th[t].op = "api_ask" /\ th[t].pc = "done"
        /\ th[t].state.context =
              <<memory_store[1].text, memory_store[2].text>>
        /\ th[t].ret.answer = AnswerOf(<<memory_store[1].text>>)

\* C21: in fallback mode, with the adds made one after the other, an add
\* whose id is derived from the count appends a record whose id is its index
\* in the in-memory list (counted from 0), and POST /add answers with that
\* same id; so every record whose id no caller chose has its index as id,
\* and a list of such records alone has the ids 0..n-1, each once.
C21_DerivedIdIsIndex ==
    /\ [][\A t \in DOMAIN th :
            ~using_qdrant /\ AddSucceeds(t) /\ th'[t].derived =>
               LET n == Len(memory_store)
               IN  /\ th'[t].doc_id = Some(n)
                   /\ memory_store' =
                         Append(memory_store,
                                [id |-> n, text |-> th'[t].text,
                                 embedding |-> th'[t].embedding])
                   /\ th'[t].op = "api_add" =>
                         th'[t].ret = [kind |-> "DocumentResponse",
                                       id |-> memory_store'[n + 1].id,
                                       status |-> "added"]]_vars
    /\ [](phase = "serving" /\ ~using_qdrant =>
            /\ \A i \in 1..Len(memory_store) :
                  memory_store[i].id \notin ChosenIds =>
                     memory_store[i].id = i - 1
            /\ (\A i \in 1..Len(memory_store) :
                   memory_store[i].id \notin ChosenIds) =>
                  /\ {memory_store[i].id : i \in 1..Len(memory_store)} =
                        0..(Len(memory_store) - 1)
                  /\ \A i, j \in 1..Len(memory_store) :
                        memory_store[i].id = memory_store[j].id => i = j)

\* In fallback mode a POST /add has been answered with id 2: the list holds
\* three records, the second of an id its caller chose, the first and the
\* third with their indexes 0 and 2 as ids.
C21_Witness ==
    \E t \in DOMAIN th :
        /\ ~using_qdrant
        /\ Len(memory_store) = 3
        /\ memory_store[1].id = 0
        /\ memory_store[2].id \in ChosenIds
        /\ memory_store[3].id = 2
        /\ th[t].op = "api_add" /\ th[t].pc = "done"
        /\ th[t].ret = [kind |-> "DocumentResponse", id |-> 2,
                        status |-> "added"]

====
